---- MODULE Spec2Model ----
(***************************************************************************)
(* Habl.AI: text translation and text-to-speech behind a REST API.         *)
(*                                                                         *)
(* Strings are modelled as sequences of tokens <<kind, n>>.  A token is    *)
(* one separator character ("\n", " ", "."), a run of n letters 'a'        *)
(* (kind "a"), or a literal word (kind = the word, n = its length).  No    *)
(* token other than the three separator tokens contains a separator        *)
(* character, so Python's str.split / str.strip / str.replace / str.join   *)
(* act on the token sequence exactly as they act on the characters.        *)
(***************************************************************************)
EXTENDS Integers, Sequences, FiniteSets, TLC

\* ------------------------------------------------------------------ bounds

\* Longest input text of the chunker specifications, in atoms (see Atoms).
MaxAtoms == 4

\* ----------------------------------------------------------------- strings

NL  == <<"\n", 1>>
SP  == <<" ", 1>>
DOT == <<".", 1>>

Run(n) == <<"a", n>>

\* len() of one token: the timestamp "%Y%m%d_%H%M%S" is 15 characters.
TokLen(t) == IF t[1] = "ts" THEN 15 ELSE t[2]

RECURSIVE StrLen(_)
\* Python len(s)
StrLen(s) == IF s = <<>> THEN 0 ELSE TokLen(Head(s)) + StrLen(Tail(s))

IsSpace(t) == t \in {NL, SP}

RECURSIVE LStrip(_)
LStrip(s) == IF s # <<>> /\ IsSpace(Head(s)) THEN LStrip(Tail(s)) ELSE s

RECURSIVE RStrip(_)
RStrip(s) ==
    IF s # <<>> /\ IsSpace(s[Len(s)]) THEN RStrip(SubSeq(s, 1, Len(s) - 1)) ELSE s

\* Python s.strip()
Strip(s) == RStrip(LStrip(s))

RECURSIVE SplitAcc(_, _, _, _, _)
SplitAcc(s, sep, i, cur, acc) ==
    IF i > Len(s) THEN Append(acc, cur)
    ELSE IF i + Len(sep) - 1 <= Len(s) /\ SubSeq(s, i, i + Len(sep) - 1) = sep
         THEN SplitAcc(s, sep, i + Len(sep), <<>>, Append(acc, cur))
         ELSE SplitAcc(s, sep, i + 1, Append(cur, s[i]), acc)

\* Python s.split(sep): the pieces between the non-overlapping occurrences of
\* sep, scanned left to right.
Split(s, sep) == SplitAcc(s, sep, 1, <<>>, <<>>)

RECURSIVE Join(_, _)
\* Python sep.join(parts)
Join(parts, sep) ==
    IF parts = <<>> THEN <<>>
    ELSE IF Len(parts) = 1 THEN parts[1]
    ELSE parts[1] \o sep \o Join(Tail(parts), sep)

\* Python s.replace(old, new)
Replace(s, old, new) == Join(Split(s, old), new)

\* Python: "Error" in s.  The only token whose characters hold "Error" is
\* the word Error itself.
ContainsError(s) == \E i \in 1..Len(s) : s[i][1] = "Error"

PARA_SEP == <<NL, NL>>
SENT_SEP == <<DOT, SP>>

\* -------------------------------------------------- remote services (black boxes)

\* Messages str(e) of the exceptions a remote call can raise: one without and
\* one with the substring "Error".
ERR_PLAIN  == << <<"timeout", 7>> >>
ERR_SERVER == << <<"Server", 6>>, SP, <<"Error", 5>> >>
ErrMsgs == {ERR_PLAIN, ERR_SERVER}

CodeLen(l) == IF l = "zh-CN" THEN 5 ELSE 2

\* What the remote translator answers when it answers: the chunk unchanged
\* (mode "same") or some other text, here the chunk marked with the target.
RemoteModes == {"same", "tag"}
GoogleTranslate(chunk, target, mode) ==
    IF mode = "same" THEN chunk ELSE << <<target, CodeLen(target)>>, SP >> \o chunk

\* The behaviour of the remote service during one call of translate_text or
\* text_to_speech: which remote call raises (0: none) and with what message.
Oracles(maxCalls, modes) ==
    {[failAt |-> 0, msg |-> ERR_PLAIN, mode |-> m] : m \in modes}
    \cup {[failAt |-> k, msg |-> e, mode |-> "same"] :
              k \in 1..maxCalls, e \in ErrMsgs}

\* ------------------------------------------------ LocalizationAI.translate_text

SOURCE_LANGUAGE == "en"
MAX_CHUNK_SIZE == 4500

EmptyChunker == [chunks |-> <<>>, current_chunk |-> <<>>, current_length |-> 0]

\* hablai_core.py 81-93: one sentence of a paragraph longer than MAX_CHUNK_SIZE
TrSentenceStep(st, raw) ==
    LET sentence == Strip(raw) IN
    IF sentence = <<>> THEN st
    ELSE IF st.current_length + StrLen(sentence) + 2 > MAX_CHUNK_SIZE
         THEN [chunks |-> IF st.current_chunk # <<>>
                          THEN Append(st.chunks, Join(st.current_chunk, <<SP>>))
                          ELSE st.chunks,
               current_chunk |-> <<sentence>>,
               current_length |-> StrLen(sentence)]
         ELSE [chunks |-> st.chunks,
               current_chunk |-> Append(st.current_chunk, sentence),
               current_length |-> st.current_length + StrLen(sentence) + 2]

RECURSIVE TrSentences(_, _)
TrSentences(st, sentences) ==
    IF sentences = <<>> THEN st
    ELSE TrSentences(TrSentenceStep(st, Head(sentences)), Tail(sentences))

\* Every paragraph split by sentences, whatever its length.
TrParagraphBySentences(st, paragraph) ==
    TrSentences(st, Split(paragraph, SENT_SEP))

\* hablai_core.py 75-103: one paragraph
TrParagraphStep(st, paragraph) ==
    LET paragraph_length == StrLen(paragraph) IN
    IF paragraph_length > MAX_CHUNK_SIZE
    THEN TrSentences(st, Split(paragraph, SENT_SEP))
    ELSE IF st.current_length + paragraph_length + 2 > MAX_CHUNK_SIZE
         THEN [chunks |-> IF st.current_chunk # <<>>
                          THEN Append(st.chunks, Join(st.current_chunk, PARA_SEP))
                          ELSE st.chunks,
               current_chunk |-> <<paragraph>>,
               current_length |-> paragraph_length]
         ELSE [chunks |-> st.chunks,
               current_chunk |-> Append(st.current_chunk, paragraph),
               current_length |-> st.current_length + paragraph_length + 2]

RECURSIVE TrParagraphs(_, _)
TrParagraphs(st, paragraphs) ==
    IF paragraphs = <<>> THEN st
    ELSE TrParagraphs(TrParagraphStep(st, Head(paragraphs)), Tail(paragraphs))

\* hablai_core.py 70-107: the chunks of a long text
TranslateChunks(text) ==
    LET st == TrParagraphs(EmptyChunker, Split(text, PARA_SEP)) IN
    IF st.current_chunk # <<>>
    THEN Append(st.chunks, Join(st.current_chunk, PARA_SEP))
    ELSE st.chunks

RECURSIVE NonEmptyStripped(_)
\* hablai_core.py 81-84 and 183-186: the sentences stripped, empty ones skipped
NonEmptyStripped(sentences) ==
    IF sentences = <<>> THEN <<>>
    ELSE IF Strip(Head(sentences)) = <<>> THEN NonEmptyStripped(Tail(sentences))
         ELSE <<Strip(Head(sentences))>> \o NonEmptyStripped(Tail(sentences))

RECURSIVE TrSegmentsOf(_)
TrSegmentsOf(paragraphs) ==
    IF paragraphs = <<>> THEN <<>>
    ELSE (IF StrLen(Head(paragraphs)) > MAX_CHUNK_SIZE
          THEN NonEmptyStripped(Split(Head(paragraphs), SENT_SEP))
          ELSE << Head(paragraphs) >>)
         \o TrSegmentsOf(Tail(paragraphs))

\* hablai_core.py 70-84 and 94-95: the segments the chunker packs, in the order
\* it meets them: a paragraph of at most MAX_CHUNK_SIZE characters as split,
\* the sentences of a longer paragraph.
TrSegments(text) == TrSegmentsOf(Split(text, PARA_SEP))

TRANSLATION_ERROR == << <<"Translation", 11>>, SP, <<"error:", 6>>, SP >>

TrCall(chunk, target_lang) == [text |-> chunk, target |-> target_lang]

RECURSIVE TranslateLoop(_, _, _, _, _, _)
\* The loop with each result put in front of the earlier ones.
TranslateLoopReversed(chunks, i, translated_chunks, calls, target_lang, o) ==
    IF i > Len(chunks)
    THEN [result |-> Join(translated_chunks, PARA_SEP), calls |-> calls,
          raised |-> FALSE]
    ELSE IF o.failAt = i
         THEN [result |-> TRANSLATION_ERROR \o o.msg,
               calls |-> Append(calls, TrCall(chunks[i], target_lang)),
               raised |-> TRUE]
         ELSE TranslateLoop(chunks, i + 1,
                  <<GoogleTranslate(chunks[i], target_lang, o.mode)>>
                      \o translated_chunks,
                  Append(calls, TrCall(chunks[i], target_lang)), target_lang, o)

\* hablai_core.py 116-132: translate the chunks one by one; the call that
\* raises ends the loop in the except branch.
TranslateLoop(chunks, i, translated_chunks, calls, target_lang, o) ==
    IF i > Len(chunks)
    THEN [result |-> Join(translated_chunks, PARA_SEP), calls |-> calls,
          raised |-> FALSE]
    ELSE IF o.failAt = i
         THEN [result |-> TRANSLATION_ERROR \o o.msg,
               calls |-> Append(calls, TrCall(chunks[i], target_lang)),
               raised |-> TRUE]
         ELSE TranslateLoop(chunks, i + 1,
                  Append(translated_chunks,
                         GoogleTranslate(chunks[i], target_lang, o.mode)),
                  Append(calls, TrCall(chunks[i], target_lang)), target_lang, o)

\* hablai_core.py 58-64: a text of at most MAX_CHUNK_SIZE characters
TranslateShort(text, target_lang, o) ==
    IF target_lang = SOURCE_LANGUAGE
    THEN [result |-> text, calls |-> <<>>, raised |-> FALSE]
    ELSE IF o.failAt = 1
         THEN [result |-> TRANSLATION_ERROR \o o.msg,
               calls |-> << TrCall(text, target_lang) >>, raised |-> TRUE]
         ELSE [result |-> GoogleTranslate(text, target_lang, o.mode),
               calls |-> << TrCall(text, target_lang) >>, raised |-> FALSE]

\* The long path without the return of lines 112-114.
TranslateLongAnyTarget(text, target_lang, o) ==
    TranslateLoop(TranslateChunks(text), 1, <<>>, <<>>, target_lang, o)

\* hablai_core.py 66-129: a longer text
TranslateLong(text, target_lang, o) ==
    LET chunks == TranslateChunks(text) IN
    IF target_lang = SOURCE_LANGUAGE
    THEN [result |-> text, calls |-> <<>>, raised |-> FALSE]
    ELSE TranslateLoop(chunks, 1, <<>>, <<>>, target_lang, o)

\* hablai_core.py 42-132.  Returns the returned string, the remote calls made
\* (in order) and whether a remote call raised.
translate_text(text, target_lang, o) ==
    IF StrLen(text) <= MAX_CHUNK_SIZE
    THEN TranslateShort(text, target_lang, o)
    ELSE TranslateLong(text, target_lang, o)

\* Remote calls translate_text makes on text when none raises.
TranslateCallCount(text, target_lang) ==
    Len(translate_text(text, target_lang,
                       [failAt |-> 0, msg |-> ERR_PLAIN, mode |-> "same"]).calls)

\* ------------------------------------------------ LocalizationAI.text_to_speech

MAX_TTS_SIZE == 4999

\* hablai_core.py 183-197: one sentence
TtsSentenceStep(st, raw) ==
    LET sentence == Strip(raw)
        sentence_length == StrLen(sentence)
    IN
    IF sentence = <<>> THEN st
    ELSE IF st.current_length + sentence_length + 2 > MAX_TTS_SIZE
         THEN [chunks |-> IF st.current_chunk # <<>>
                          THEN Append(st.chunks,
                                      Join(st.current_chunk, SENT_SEP) \o <<DOT>>)
                          ELSE st.chunks,
               current_chunk |-> <<sentence>>,
               current_length |-> sentence_length]
         ELSE [chunks |-> st.chunks,
               current_chunk |-> Append(st.current_chunk, sentence),
               current_length |-> st.current_length + sentence_length + 2]

RECURSIVE TtsSentences(_, _)
TtsSentences(st, sentences) ==
    IF sentences = <<>> THEN st
    ELSE TtsSentences(TtsSentenceStep(st, Head(sentences)), Tail(sentences))

CR == <<"\r", 1>>

\* hablai_core.py 178: the sentences of a long text
TtsSplit(text) ==
    Split(Replace(Replace(text, <<DOT, NL>>, SENT_SEP), <<DOT, CR>>, SENT_SEP),
          SENT_SEP)

\* hablai_core.py 177-200: the chunks of a long text
TtsChunks(text) ==
    LET st == TtsSentences(EmptyChunker, TtsSplit(text)) IN
    IF st.current_chunk # <<>>
    THEN Append(st.chunks, Join(st.current_chunk, SENT_SEP) \o <<DOT>>)
    ELSE st.chunks

\* hablai_core.py 178-186: the segments the chunker packs
TtsSegments(text) == NonEmptyStripped(TtsSplit(text))

RECURSIVE Truncate(_, _)
\* Python s[:k]
Truncate(s, k) ==
    IF s = <<>> \/ k <= 0 THEN <<>>
    ELSE IF TokLen(Head(s)) <= k
         THEN <<Head(s)>> \o Truncate(Tail(s), k - TokLen(Head(s)))
         ELSE << <<Head(s)[1], k>> >>

TTS_ERROR == << <<"TTS", 3>>, SP, <<"error:", 6>>, SP >>

\* hablai_core.py 154-155: os.path.join(output_dir, f"audio_{lang}_{timestamp}.mp3")
AudioPath(lang, now) ==
    << <<"output_audio/", 13>>, <<"audio_", 6>>, <<lang, CodeLen(lang)>>,
       <<"_", 1>>, <<"ts", now>>, <<".mp3", 4>> >>

TtsCall(chunk, lang) == [text |-> chunk, lang |-> lang]

RECURSIVE TtsLoop(_, _, _, _, _, _, _)
\* The loop with each chunk's audio put in front of the audio combined so far.
TtsLoopNewestFirst(chunks, i, combined, calls, lang, filename, o) ==
    IF i > Len(chunks)
    THEN IF o.failAt = i
         THEN [result |-> TTS_ERROR \o o.msg, calls |-> calls, raised |-> TRUE,
               saved |-> <<>>]
         ELSE [result |-> filename, calls |-> calls, raised |-> FALSE,
               saved |-> << [path |-> filename, audio |-> combined] >>]
    ELSE IF o.failAt = i
         THEN [result |-> TTS_ERROR \o o.msg,
               calls |-> Append(calls, TtsCall(chunks[i], lang)), raised |-> TRUE,
               saved |-> <<>>]
         ELSE TtsLoop(chunks, i + 1, <<chunks[i]>> \o combined,
                      Append(calls, TtsCall(chunks[i], lang)), lang, filename, o)

\* hablai_core.py 204-227: synthesize the chunks one by one and append each to
\* the combined audio; call n+1 of the oracle is the final export.
TtsLoop(chunks, i, combined, calls, lang, filename, o) ==
    IF i > Len(chunks)
    THEN IF o.failAt = i
         THEN [result |-> TTS_ERROR \o o.msg, calls |-> calls, raised |-> TRUE,
               saved |-> <<>>]
         ELSE [result |-> filename, calls |-> calls, raised |-> FALSE,
               saved |-> << [path |-> filename, audio |-> combined] >>]
    ELSE IF o.failAt = i
         THEN [result |-> TTS_ERROR \o o.msg,
               calls |-> Append(calls, TtsCall(chunks[i], lang)), raised |-> TRUE,
               saved |-> <<>>]
         ELSE TtsLoop(chunks, i + 1, Append(combined, chunks[i]),
                      Append(calls, TtsCall(chunks[i], lang)), lang, filename, o)

\* One gTTS call whose exception message is returned as it is.
TtsDirectBareMessage(text, lang, filename, o) ==
    IF o.failAt = 1
    THEN [result |-> o.msg, calls |-> << TtsCall(text, lang) >>,
          raised |-> TRUE, saved |-> <<>>]
    ELSE [result |-> filename, calls |-> << TtsCall(text, lang) >>,
          raised |-> FALSE,
          saved |-> << [path |-> filename, audio |-> <<text>>] >>]

\* hablai_core.py 159-162 and 171-175: one gTTS call saved under filename
TtsDirect(text, lang, filename, o) ==
    IF o.failAt = 1
    THEN [result |-> TTS_ERROR \o o.msg, calls |-> << TtsCall(text, lang) >>,
          raised |-> TRUE, saved |-> <<>>]
    ELSE [result |-> filename, calls |-> << TtsCall(text, lang) >>,
          raised |-> FALSE,
          saved |-> << [path |-> filename, audio |-> <<text>>] >>]

\* hablai_core.py 134-227.  Returns the returned string, the gTTS calls made
\* (in order), whether a call raised, and the audio file written (the audio of
\* a file is the sequence of the texts it speaks).
text_to_speech(text, lang, now, pydub, o) ==
    LET filename == AudioPath(lang, now) IN
    IF StrLen(text) <= MAX_TTS_SIZE
    THEN TtsDirect(text, lang, filename, o)
    ELSE IF ~pydub
         THEN TtsDirect(Truncate(text, MAX_TTS_SIZE), lang, filename, o)
         ELSE TtsLoop(TtsChunks(text), 1, <<>>, <<>>, lang, filename, o)

\* gTTS calls text_to_speech makes on text when none raises.
TtsCallCount(text, pydub) ==
    Len(text_to_speech(text, "en", 0, pydub,
                       [failAt |-> 0, msg |-> ERR_PLAIN, mode |-> "same"]).calls)

\* ------------------------------------------------------------------- state

VARIABLES
    pc,                \* where the current request (or direct call) stands
    request,           \* the current request: endpoint, text, target_language, ...
    remote,            \* how the remote translator behaved during the request
    translated,        \* what translate_text returned
    audio_file,        \* what text_to_speech returned
    translator_calls,  \* the remote translator calls of the request, in order
    gtts_calls,        \* the gTTS calls of the request, in order
    tr_raised,         \* whether a remote translator call raised
    tts_raised,        \* whether speech synthesis raised
    pydub,             \* whether pydub can be imported
    clock,             \* datetime.now(), in seconds
    fs,                \* the audio files written: path and audio, in order
    current_user,      \* what get_current_user returned to the handler
    credits,           \* user_profiles.credits_remaining, per user id
    usage_logs,        \* rows of the usage_logs table
    translations,      \* rows of the translations table
    localizations,     \* rows of the localizations table
    events,            \* the steps of the current request, in order
    has_credits,       \* what check_and_deduct_credits answered the handler
    ledger0,           \* the ledger when the request arrived
    source_text,       \* the text the request passed to translate_text
    processed,         \* what FileProcessor.process_file returned
    response           \* the HTTP response of the current request

coreVars == <<remote, translated, audio_file, translator_calls, gtts_calls,
              tr_raised, tts_raised, fs>>
dbVars == <<credits, usage_logs, translations, localizations>>
reqVars == <<events, has_credits, ledger0>>
obsVars == <<source_text, processed>>
vars == <<pc, request, coreVars, pydub, clock, current_user, dbVars, reqVars,
          obsVars, response>>

NONE == << <<"None", 4>> >>

\* processed before FileProcessor.process_file has run
NO_RESULT ==
    [success |-> FALSE, text |-> <<>>, format |-> "", char_count |-> 0,
     error |-> <<>>]

\* ---------------------------------------------- inputs of the direct calls

RECURSIVE TextsOfAtoms(_, _)
\* The texts made of at most n atoms, no two letter runs adjacent.
TextsOfAtoms(A, n) ==
    IF n = 0 THEN {<<>>}
    ELSE LET S == TextsOfAtoms(A, n - 1) IN
         S \cup UNION {{a \o t : t \in {u \in S : ~(u # <<>> /\ a[Len(a)][1] = "a"
                                                      /\ u[1][1] = "a")}}
                       : a \in A}

TrAtoms == {PARA_SEP, SENT_SEP, <<SP>>,
            <<Run(1)>>, <<Run(2250)>>, <<Run(4499)>>, <<Run(4501)>>}

TtsAtoms == {SENT_SEP, <<DOT>>, <<NL>>, <<SP>>,
             <<Run(2)>>, <<Run(4995)>>, <<Run(4999)>>}

CoreLangs == {"en", "es"}

\* ------------------------------------------- direct calls (hablai_core.py 231-254)

InitCore ==
    /\ pc = "call"
    /\ \/ \E t \in TextsOfAtoms(TrAtoms, MaxAtoms), l \in CoreLangs :
            request = [endpoint |-> "translate_text", text |-> t,
                       target_language |-> l]
       \/ \E t \in TextsOfAtoms(TtsAtoms, MaxAtoms), l \in CoreLangs :
            request = [endpoint |-> "text_to_speech", text |-> t,
                       target_language |-> l]
    /\ remote = [failAt |-> 0, msg |-> ERR_PLAIN, mode |-> "same"]
    /\ translated = NONE
    /\ audio_file = NONE
    /\ translator_calls = <<>>
    /\ gtts_calls = <<>>
    /\ tr_raised = FALSE
    /\ tts_raised = FALSE
    /\ pydub \in (IF request.endpoint = "text_to_speech" THEN BOOLEAN ELSE {TRUE})
    /\ clock = 0
    /\ fs = <<>>
    /\ current_user = "nobody"
    /\ credits = [u \in {} |-> 0]
    /\ usage_logs = <<>>
    /\ translations = <<>>
    /\ localizations = <<>>
    /\ events = <<>>
    /\ has_credits = "unset"
    /\ ledger0 = credits
    /\ source_text = NONE
    /\ processed = NO_RESULT
    /\ response = [status |-> 0]

\* ai.translate_text(text, lang)
CallTranslate ==
    /\ pc = "call"
    /\ request.endpoint = "translate_text"
    /\ \E o \in Oracles(TranslateCallCount(request.text, request.target_language),
                        RemoteModes) :
         LET r == translate_text(request.text, request.target_language, o) IN
         /\ remote' = o
         /\ translated' = r.result
         /\ translator_calls' = r.calls
         /\ tr_raised' = r.raised
    /\ source_text' = request.text
    /\ pc' = "done"
    /\ UNCHANGED <<request, audio_file, gtts_calls, tts_raised, pydub, clock, fs,
                   current_user, dbVars, reqVars, processed, response>>

\* ai.text_to_speech(text, lang)
CallTts ==
    /\ pc = "call"
    /\ request.endpoint = "text_to_speech"
    /\ \E o \in Oracles(TtsCallCount(request.text, pydub) + 1, {"same"}) :
         LET r == text_to_speech(request.text, request.target_language, clock,
                                 pydub, o) IN
         /\ audio_file' = r.result
         /\ gtts_calls' = r.calls
         /\ tts_raised' = r.raised
         /\ fs' = fs \o r.saved
    /\ pc' = "done"
    /\ UNCHANGED <<request, remote, translated, translator_calls, tr_raised, pydub,
                   clock, current_user, dbVars, reqVars, obsVars, response>>

NextCore == CallTranslate \/ CallTts

SpecCore == InitCore /\ [][NextCore]_vars

\* ------------------------------- repeated calls of text_to_speech over time

\* Calls of text_to_speech in one behaviour.
MaxCalls == 2

\* Seconds the clock advances in one behaviour.
MaxClock == 1

AudioTexts == { <<Run(2)>>, <<Run(4999)>> \o SENT_SEP \o <<Run(2)>> }

InitAudio ==
    /\ InitCore
    /\ request.endpoint = "text_to_speech"
    /\ request.text \in AudioTexts

\* The caller keeps what the call returned and calls text_to_speech again.
SpeakAgain ==
    /\ pc = "done"
    /\ request.endpoint = "text_to_speech"
    /\ Len(events) + 1 < MaxCalls
    /\ events' = Append(events, audio_file)
    /\ \E t \in AudioTexts, l \in CoreLangs :
         request' = [endpoint |-> "text_to_speech", text |-> t,
                     target_language |-> l]
    /\ audio_file' = NONE
    /\ gtts_calls' = <<>>
    /\ tts_raised' = FALSE
    /\ pc' = "call"
    /\ UNCHANGED <<remote, translated, translator_calls, tr_raised, pydub, clock,
                   fs, current_user, dbVars, has_credits, ledger0, obsVars,
                   response>>

\* datetime.now() moves on by a second.
Tick ==
    /\ clock < MaxClock
    /\ clock' = clock + 1
    /\ UNCHANGED <<pc, request, coreVars, pydub, current_user, dbVars, reqVars,
                   obsVars, response>>

NextAudio == CallTts \/ SpeakAgain \/ Tick

SpecAudio == InitAudio /\ [][NextAudio]_vars

\* ------------------------------------------------------ config.py, models.py

TARGET_LANGUAGES == {"en", "es", "fr", "de", "it", "pt", "ja", "zh-CN", "ko"}
TargetLanguage == {"en", "es", "fr", "de", "it", "pt", "ja", "zh-CN", "ko"}
MAX_TEXT_LENGTH == 20000
MIN_TEXT_LENGTH == 1

\* A request model that checks the language only.
ValidBodyAnyLength(data) == data.target_language \in TargetLanguage

\* models.py 26-29 and 51-54: the request body of /translate and /tts
ValidBody(data) ==
    /\ StrLen(data.text) >= MIN_TEXT_LENGTH
    /\ StrLen(data.text) <= MAX_TEXT_LENGTH
    /\ data.target_language \in TargetLanguage

\* ---------------------------------------------------------- file_processor.py

SUPPORTED_FORMATS == {"txt", "pdf", "docx", "json", "csv", "xlsx", "xls"}
MAX_FILE_SIZE == 10485760

\* str.lower() on the extensions the requests use
Lower(ext) ==
    CASE ext = "TXT" -> "txt"
      [] ext = "PDF" -> "pdf"
      [] OTHER -> ext

\* file_processor.py 29-32; a filename is modelled by what follows its last '.'
get_file_extension(file) == Lower(file.ext)

\* file_processor.py 34-38
is_supported(file) == get_file_extension(file) \in SUPPORTED_FORMATS

\* The format-specific extractor raises on content it cannot parse; _process_txt
\* decodes with errors='ignore' and does not.
ExtractorRaises(file) == file.corrupt /\ get_file_extension(file) # "txt"

\* process_file without the size check of lines 61-65.
ProcessFileAnySize(file) ==
    LET ext == get_file_extension(file) IN
    IF ~is_supported(file)
    THEN [success |-> FALSE, text |-> <<>>, format |-> "", char_count |-> 0,
          error |-> << <<"Formato no soportado: ", 22>>, <<ext, 3>> >>]
    ELSE IF ExtractorRaises(file)
    THEN [success |-> FALSE, text |-> <<>>, format |-> "", char_count |-> 0,
          error |-> << <<"Error procesando archivo: ", 26>> >> \o ERR_PLAIN]
    ELSE [success |-> TRUE, text |-> Strip(file.content), format |-> ext,
          char_count |-> StrLen(Strip(file.content)), error |-> <<>>]

\* file_processor.py 40-101; every extractor ends in .strip()
FileProcessor_process_file(file) ==
    LET ext == get_file_extension(file) IN
    IF ~is_supported(file)
    THEN [success |-> FALSE, text |-> <<>>, format |-> "", char_count |-> 0,
          error |-> << <<"Formato no soportado: ", 22>>, <<ext, 3>> >>]
    ELSE IF file.size > MAX_FILE_SIZE
    THEN [success |-> FALSE, text |-> <<>>, format |-> "", char_count |-> 0,
          error |-> << <<"Archivo demasiado grande.", 25>> >>]
    ELSE IF ExtractorRaises(file)
    THEN [success |-> FALSE, text |-> <<>>, format |-> "", char_count |-> 0,
          error |-> << <<"Error procesando archivo: ", 26>> >> \o ERR_PLAIN]
    ELSE [success |-> TRUE, text |-> Strip(file.content), format |-> ext,
          char_count |-> StrLen(Strip(file.content)), error |-> <<>>]

\* ------------------------------------------------------------------ auth.py

\* Largest balance of the ledger at the start.
MaxCredits == 2

Tokens == {"tok_u1", "tok_u2", "bad"}

\* supabase.auth.get_user(token): the user a token belongs to
TokenUser(token) ==
    CASE token = "tok_u1" -> "u1"
      [] token = "tok_u2" -> "u2"
      [] OTHER -> "nobody"

\* auth.py 127-173.  auth and lookup are what the two Supabase calls do:
\* answer ("ok") or raise; a profile query that matches no row answers with
\* no data or, since it is built with .single(), raises.
get_current_user(token, creds, auth, lookup) ==
    IF auth = "raise"
    THEN [status |-> 401, user |-> "nobody", steps |-> <<"get_user">>]
    ELSE IF TokenUser(token) = "nobody"
    THEN [status |-> 401, user |-> "nobody", steps |-> <<"get_user">>]
    ELSE IF lookup = "raise"
    THEN [status |-> 401, user |-> "nobody",
          steps |-> <<"get_user", "profile_lookup">>]
    ELSE IF TokenUser(token) \notin DOMAIN creds
    THEN [status |-> 404, user |-> "nobody",
          steps |-> <<"get_user", "profile_lookup">>]
    ELSE [status |-> 200, user |-> TokenUser(token),
          steps |-> <<"get_user", "profile_lookup">>]

\* The rpc answering True without taking the credits.
CheckWithoutDeduct(creds, user_id, credits_needed, rpc) ==
    IF rpc = "raise" THEN [ok |-> FALSE, credits |-> creds]
    ELSE [ok |-> creds[user_id] >= credits_needed, credits |-> creds]

\* auth.py 175-198: True if credits were available and deducted, False
\* otherwise, also when the rpc raises.
check_and_deduct_credits(creds, user_id, credits_needed, rpc) ==
    IF rpc = "raise" THEN [ok |-> FALSE, credits |-> creds]
    ELSE IF creds[user_id] >= credits_needed
         THEN [ok |-> TRUE,
               credits |-> [creds EXCEPT ![user_id] = @ - credits_needed]]
         ELSE [ok |-> FALSE, credits |-> creds]

\* auth.py 218-244: the row inserted, none when the insert raises
log_usage(user_id, action_type, char_count, target_language, success, db) ==
    IF db = "up"
    THEN << [user_id |-> user_id, action_type |-> action_type,
             char_count |-> char_count, target_language |-> target_language,
             credits_used |-> 1, success |-> success] >>
    ELSE <<>>

\* ------------------------------------------------------------------- api.py

\* What one run of a handler does: the response, the new ledger, the rows it
\* inserts, the files it writes, the remote calls and its steps in order.
NoEffect(creds) ==
    [status |-> 0, success |-> FALSE, translated_text |-> NONE,
     audio_file |-> NONE, audio_url |-> NONE,
     credits |-> creds, logs |-> <<>>, trans |-> <<>>, locs |-> <<>>,
     saved |-> <<>>, tcalls |-> <<>>, gcalls |-> <<>>, events |-> <<>>,
     translated |-> NONE, audio |-> NONE, mode |-> "same",
     has_credits |-> "unset",
     tr_raised |-> FALSE, tts_raised |-> FALSE,
     source |-> NONE, file_result |-> NO_RESULT]

Repeat(n, x) == [i \in 1..n |-> x]

RECURSIVE LastDir(_, _)
\* index of the last token of s that ends in '/', 0 when there is none
LastDir(s, i) ==
    IF i = 0 THEN 0
    ELSE IF s[i][1] = "output_audio/" THEN i ELSE LastDir(s, i - 1)

\* os.path.basename
Basename(s) == SubSeq(s, LastDir(s, Len(s)) + 1, Len(s))

\* api.py 332 and 497
AudioUrl(name) == << <<"/audio/", 7>> >> \o name

\* api.py 534-536: text[:500] + "..." if len(text) > 500 else text
Preview(s) == IF StrLen(s) > 500 THEN Truncate(s, 500) \o <<DOT, DOT, DOT>> ELSE s

\* api.py 225, 299, 316, 464, 481
LooksLikeError(s) == ContainsError(s)

\* api.py 296-372 (/tts) and 461-541 (/process-file): translate, synthesize,
\* save, log, answer.  e holds what the handler did before.
Localize(e, user, text, lang, action_type, now, pyd, env) ==
    LET r == translate_text(text, lang, env.tr)
        e1 == [e EXCEPT !.translated = r.result, !.tcalls = r.calls,
                        !.source = text,
                        !.tr_raised = r.raised, !.mode = env.tr.mode,
                        !.events = @ \o <<"translate_text">>
                                     \o Repeat(Len(r.calls), "remote_translate")]
    IN
    IF LooksLikeError(r.result)
    THEN [e1 EXCEPT !.logs = log_usage(user, action_type, StrLen(text), lang,
                                       FALSE, env.db),
                    !.events = @ \o <<"log_usage">>,
                    !.status = 500]
    ELSE
    LET a == text_to_speech(r.result, lang, now, pyd, env.tts)
        e2 == [e1 EXCEPT !.audio = a.result, !.gcalls = a.calls,
                         !.tts_raised = a.raised, !.saved = a.saved,
                         !.events = @ \o <<"text_to_speech">>
                                      \o Repeat(Len(a.calls), "gtts")]
    IN
    IF LooksLikeError(a.result)
    THEN [e2 EXCEPT !.logs = log_usage(user, action_type, StrLen(text), lang,
                                       FALSE, env.db),
                    !.events = @ \o <<"log_usage">>,
                    !.status = 500]
    ELSE
    LET audio_filename == Basename(a.result)
        audio_url == AudioUrl(audio_filename)
        shown == IF action_type = "process_file" THEN Preview(r.result)
                 ELSE r.result
    IN
    [e2 EXCEPT
        !.trans = IF env.db = "up"
                  THEN << [user_id |-> user, source_text |-> text,
                           translated_text |-> r.result,
                           target_language |-> lang] >>
                  ELSE <<>>,
        !.locs = IF env.db = "up"
                 THEN << [user_id |-> user, audio_file_path |-> a.result,
                          audio_url |-> audio_url] >>
                 ELSE <<>>,
        !.logs = log_usage(user, action_type, StrLen(text), lang, TRUE, env.db),
        !.events = @ \o (IF env.db = "up"
                         THEN <<"insert_translations", "insert_localizations">>
                         ELSE <<"insert_translations">>)
                     \o <<"log_usage">>,
        !.status = 200, !.success = TRUE, !.translated_text = shown,
        !.audio_file = audio_filename, !.audio_url = audio_url]

\* /translate giving the credit back when the translation fails.
TranslateRefunding(user, data, creds, env) ==
    LET d == check_and_deduct_credits(creds, user, 1, env.rpc)
        e == [NoEffect(creds) EXCEPT !.credits = d.credits,
                                     !.has_credits = IF d.ok THEN "True" ELSE "False",
                                     !.events = <<"check_and_deduct_credits">>]
        r == translate_text(data.text, data.target_language, env.tr)
    IN
    IF ~d.ok THEN [e EXCEPT !.status = 402]
    ELSE IF LooksLikeError(r.result)
    THEN [e EXCEPT !.credits = creds, !.source = data.text,
                   !.translated = r.result, !.tcalls = r.calls,
                   !.tr_raised = r.raised, !.mode = env.tr.mode,
                   !.logs = log_usage(user, "translate", StrLen(data.text),
                                      data.target_language, FALSE, env.db),
                   !.events = @ \o <<"translate_text">>
                                \o Repeat(Len(r.calls), "remote_translate")
                                \o <<"log_usage">>,
                   !.status = 500]
    ELSE [e EXCEPT !.source = data.text,
                   !.translated = r.result, !.tcalls = r.calls,
                   !.tr_raised = r.raised, !.mode = env.tr.mode,
                   !.logs = log_usage(user, "translate", StrLen(data.text),
                                      data.target_language, TRUE, env.db),
                   !.events = @ \o <<"translate_text">>
                                \o Repeat(Len(r.calls), "remote_translate")
                                \o <<"log_usage">>,
                   !.status = 200, !.success = TRUE,
                   !.translated_text = r.result]

\* api.py 193-261
translate_endpoint(user, data, creds, env) ==
    LET d == check_and_deduct_credits(creds, user, 1, env.rpc)
        e == [NoEffect(creds) EXCEPT !.credits = d.credits,
                                     !.has_credits = IF d.ok THEN "True" ELSE "False",
                                     !.events = <<"check_and_deduct_credits">>]
    IN
    IF ~d.ok THEN [e EXCEPT !.status = 402]
    ELSE
    LET r == translate_text(data.text, data.target_language, env.tr)
        e1 == [e EXCEPT !.translated = r.result, !.tcalls = r.calls,
                        !.source = data.text,
                        !.tr_raised = r.raised, !.mode = env.tr.mode,
                        !.events = @ \o <<"translate_text">>
                                     \o Repeat(Len(r.calls), "remote_translate")]
    IN
    IF LooksLikeError(r.result)
    THEN [e1 EXCEPT !.logs = log_usage(user, "translate", StrLen(data.text),
                                       data.target_language, FALSE, env.db),
                    !.events = @ \o <<"log_usage">>,
                    !.status = 500]
    ELSE [e1 EXCEPT !.logs = log_usage(user, "translate", StrLen(data.text),
                                       data.target_language, TRUE, env.db),
                    !.events = @ \o <<"log_usage">>,
                    !.status = 200, !.success = TRUE,
                    !.translated_text = r.result]

\* /tts going on whatever check_and_deduct_credits answered.
TtsIgnoringCredits(user, data, creds, now, pyd, env) ==
    LET d == check_and_deduct_credits(creds, user, 1, env.rpc)
        e == [NoEffect(creds) EXCEPT !.credits = d.credits,
                                     !.has_credits = IF d.ok THEN "True" ELSE "False",
                                     !.events = <<"check_and_deduct_credits">>]
    IN Localize(e, user, data.text, data.target_language, "tts", now, pyd, env)

\* api.py 265-380
tts_endpoint(user, data, creds, now, pyd, env) ==
    LET d == check_and_deduct_credits(creds, user, 1, env.rpc)
        e == [NoEffect(creds) EXCEPT !.credits = d.credits,
                                     !.has_credits = IF d.ok THEN "True" ELSE "False",
                                     !.events = <<"check_and_deduct_credits">>]
    IN
    IF ~d.ok THEN [e EXCEPT !.status = 402]
    ELSE Localize(e, user, data.text, data.target_language, "tts", now, pyd, env)

\* api.py 414-549: /process-file once the target language is accepted
ProcessAcceptedFile(user, file, target_language, creds, now, pyd, env) ==
    LET d == check_and_deduct_credits(creds, user, 1, env.rpc)
        e == [NoEffect(creds) EXCEPT !.credits = d.credits,
                                     !.has_credits = IF d.ok THEN "True" ELSE "False",
                                     !.events = <<"check_and_deduct_credits">>]
    IN
    IF ~d.ok THEN [e EXCEPT !.status = 402]
    ELSE IF env.read = "raise"
    THEN [e EXCEPT !.events = @ \o <<"file_read">>, !.status = 500]
    ELSE
    LET file_result == FileProcessor_process_file(file)
        e1 == [e EXCEPT !.events = @ \o <<"file_read", "process_file">>,
                        !.file_result = file_result]
    IN
    IF ~file_result.success
    THEN [e1 EXCEPT !.logs = log_usage(user, "process_file", 0, target_language,
                                       FALSE, env.db),
                    !.events = @ \o <<"log_usage">>,
                    !.status = 400]
    ELSE IF StrLen(file_result.text) > MAX_TEXT_LENGTH
    THEN [e1 EXCEPT !.status = 400]
    ELSE IF StrLen(file_result.text) < 1
    THEN [e1 EXCEPT !.status = 400]
    ELSE Localize(e1, user, file_result.text, target_language, "process_file",
                  now, pyd, env)

\* /process-file with the target language left unchecked.
ProcessFileUnchecked(user, file, target_language, creds, now, pyd, env) ==
    ProcessAcceptedFile(user, file, target_language, creds, now, pyd, env)

\* api.py 385-549
process_file_endpoint(user, file, target_language, creds, now, pyd, env) ==
    IF target_language \notin TARGET_LANGUAGES
    THEN [NoEffect(creds) EXCEPT !.status = 400]
    ELSE ProcessAcceptedFile(user, file, target_language, creds, now, pyd, env)

\* -------------------------------------------------------------- the requests

ERROR_WORD == <<"Error", 5>>

ApiTexts ==
    { <<>>,
      <<Run(1)>>,
      <<Run(1), SP, ERROR_WORD>>,
      <<Run(4501)>>,
      <<Run(2250)>> \o SENT_SEP \o <<Run(2250)>>,
      <<Run(4999)>> \o SENT_SEP \o <<Run(1)>>,
      <<Run(20001)>> }

RequestLangs == {"en", "es", "zh-CN", "xx"}

NOFILE == [ext |-> "", size |-> 0, corrupt |-> FALSE, content |-> <<>>]

RequestFiles ==
    {[ext |-> "txt", size |-> 1, corrupt |-> FALSE, content |-> t] :
         t \in ApiTexts \cup {<<SP, Run(1), NL>>}}
    \cup {[ext |-> "PDF", size |-> 1, corrupt |-> c, content |-> <<Run(1)>>] :
              c \in BOOLEAN}
    \cup {[ext |-> "exe", size |-> 1, corrupt |-> FALSE, content |-> <<Run(1)>>],
          [ext |-> "txt", size |-> MAX_FILE_SIZE + 1, corrupt |-> FALSE,
           content |-> <<Run(1)>>]}

Requests ==
    {[endpoint |-> ep, token |-> tok, text |-> t, target_language |-> l,
      file |-> NOFILE] :
         ep \in {"/translate", "/tts"}, tok \in Tokens, t \in ApiTexts,
         l \in RequestLangs}
    \cup {[endpoint |-> "/process-file", token |-> tok, text |-> <<>>,
           target_language |-> l, file |-> f] :
              tok \in Tokens, l \in RequestLangs, f \in RequestFiles}
    \cup {[endpoint |-> "/auth/me", token |-> tok, text |-> <<>>,
           target_language |-> "en", file |-> NOFILE] : tok \in Tokens}

ErrorResponse(status) ==
    [status |-> status, success |-> FALSE, translated_text |-> NONE,
     audio_file |-> NONE, audio_url |-> NONE]

Init ==
    /\ pc = "idle"
    /\ request = [endpoint |-> "", token |-> "", text |-> <<>>,
                  target_language |-> "", file |-> NOFILE]
    /\ remote = [failAt |-> 0, msg |-> ERR_PLAIN, mode |-> "same"]
    /\ translated = NONE
    /\ audio_file = NONE
    /\ translator_calls = <<>>
    /\ gtts_calls = <<>>
    /\ tr_raised = FALSE
    /\ tts_raised = FALSE
    /\ pydub \in BOOLEAN
    /\ clock = 0
    /\ fs = <<>>
    /\ current_user = "nobody"
    /\ credits \in [{"u1"} -> 0..MaxCredits]
    /\ usage_logs = <<>>
    /\ translations = <<>>
    /\ localizations = <<>>
    /\ events = <<>>
    /\ has_credits = "unset"
    /\ ledger0 = credits
    /\ source_text = NONE
    /\ processed = NO_RESULT
    /\ response = ErrorResponse(0)

\* A request arrives.
Receive ==
    /\ pc = "idle"
    /\ request' \in Requests
    /\ pc' = "auth"
    /\ ledger0' = credits
    /\ UNCHANGED <<coreVars, pydub, clock, current_user, dbVars, events,
                   has_credits, obsVars, response>>

\* Depends(get_current_active_user), auth.py 248-255
Authenticate ==
    /\ pc = "auth"
    /\ \E auth \in {"ok", "raise"}, lookup \in {"ok", "raise"} :
         LET r == get_current_user(request.token, credits, auth, lookup) IN
         /\ events' = r.steps
         /\ IF r.status = 200
            THEN /\ current_user' = r.user
                 /\ pc' = "validate"
                 /\ response' = response
            ELSE /\ current_user' = current_user
                 /\ pc' = "responded"
                 /\ response' = ErrorResponse(r.status)
    /\ UNCHANGED <<request, coreVars, pydub, clock, dbVars, has_credits, ledger0,
                   obsVars>>

\* FastAPI validates the body against the request model before the handler runs.
Validate ==
    /\ pc = "validate"
    /\ IF request.endpoint \in {"/translate", "/tts"} /\ ~ValidBody(request)
       THEN pc' = "responded" /\ response' = ErrorResponse(422)
       ELSE pc' = "handler" /\ response' = response
    /\ UNCHANGED <<request, coreVars, pydub, clock, current_user, dbVars, reqVars,
                   obsVars>>

\* The handler has run: its effect on the state and its response.
Apply(e) ==
    /\ response' = [status |-> e.status, success |-> e.success,
                    translated_text |-> e.translated_text,
                    audio_file |-> e.audio_file, audio_url |-> e.audio_url]
    /\ credits' = e.credits
    /\ usage_logs' = usage_logs \o e.logs
    /\ translations' = translations \o e.trans
    /\ localizations' = localizations \o e.locs
    /\ fs' = fs \o e.saved
    /\ translator_calls' = e.tcalls
    /\ gtts_calls' = e.gcalls
    /\ translated' = e.translated
    /\ audio_file' = e.audio
    /\ remote' = [remote EXCEPT !.mode = e.mode]
    /\ tr_raised' = e.tr_raised
    /\ tts_raised' = e.tts_raised
    /\ events' = events \o e.events
    /\ has_credits' = e.has_credits
    /\ source_text' = e.source
    /\ processed' = e.file_result
    /\ pc' = "responded"
    /\ UNCHANGED <<request, pydub, clock, current_user, ledger0>>

\* What the Supabase rpc, the table inserts and file.read() can do.
DbEnvs == [rpc : {"ok", "raise"}, db : {"up", "down"}, read : {"ok", "raise"}]

TrOracles(text, lang) == Oracles(TranslateCallCount(text, lang), RemoteModes)

TtsOracles(text, lang, tr) ==
    Oracles(TtsCallCount(translate_text(text, lang, tr).result, pydub) + 1,
            {"same"})

Env(x, tr, tts) ==
    [rpc |-> x.rpc, db |-> x.db, read |-> x.read, tr |-> tr, tts |-> tts]

NoOracle == [failAt |-> 0, msg |-> ERR_PLAIN, mode |-> "same"]

\* POST /translate
HandleTranslate ==
    /\ pc = "handler"
    /\ request.endpoint = "/translate"
    /\ \E x \in DbEnvs :
       \E tr \in TrOracles(request.text, request.target_language) :
         /\ x.read = "ok"
         /\ Apply(translate_endpoint(current_user, request, credits,
                                     Env(x, tr, NoOracle)))

\* POST /tts
HandleTts ==
    /\ pc = "handler"
    /\ request.endpoint = "/tts"
    /\ \E x \in DbEnvs :
       \E tr \in TrOracles(request.text, request.target_language) :
       \E tts \in TtsOracles(request.text, request.target_language, tr) :
         /\ x.read = "ok"
         /\ Apply(tts_endpoint(current_user, request, credits, clock, pydub,
                               Env(x, tr, tts)))

\* POST /process-file
HandleProcessFile ==
    /\ pc = "handler"
    /\ request.endpoint = "/process-file"
    /\ LET text == FileProcessor_process_file(request.file).text
           lang == IF request.target_language \in TARGET_LANGUAGES
                   THEN request.target_language ELSE "en"
       IN
       \E x \in DbEnvs :
       \E tr \in TrOracles(text, lang) :
       \E tts \in TtsOracles(text, lang, tr) :
         Apply(process_file_endpoint(current_user, request.file,
                                     request.target_language, credits, clock,
                                     pydub, Env(x, tr, tts)))

\* GET /auth/me, api.py 152-175
HandleAuthMe ==
    /\ pc = "handler"
    /\ request.endpoint = "/auth/me"
    /\ \E lookup \in {"ok", "raise"} :
         Apply([NoEffect(credits) EXCEPT
                   !.status = IF lookup = "ok" THEN 200 ELSE 404,
                   !.events = <<"get_user_profile">>])

Next ==
    \/ Receive
    \/ Authenticate
    \/ Validate
    \/ HandleTranslate
    \/ HandleTts
    \/ HandleProcessFile
    \/ HandleAuthMe

Spec == Init /\ [][Next]_vars

\* ------------------------------------------------------------------ claims

IsTranslateCall == request.endpoint = "translate_text"
IsTtsCall == request.endpoint = "text_to_speech"
LongForTranslate == StrLen(request.text) > MAX_CHUNK_SIZE
NotEnglish == request.target_language # SOURCE_LANGUAGE

\* C1: for a text longer than MAX_CHUNK_SIZE and a target language other than
\* 'en', every chunk passed to the remote translator has at most
\* MAX_CHUNK_SIZE characters.
C1_TranslateChunksBounded ==
    (IsTranslateCall /\ LongForTranslate /\ NotEnglish)
        => \A i \in 1..Len(translator_calls) :
               StrLen(translator_calls[i].text) <= MAX_CHUNK_SIZE

\* C2: with pydub available and a text longer than MAX_TTS_SIZE, every chunk
\* string passed to gTTS has at most MAX_TTS_SIZE characters.
C2_TtsChunksBounded ==
    (IsTtsCall /\ pydub /\ StrLen(request.text) > MAX_TTS_SIZE)
        => \A i \in 1..Len(gtts_calls) :
               StrLen(gtts_calls[i].text) <= MAX_TTS_SIZE

SepCount(s, sep) == Len(Split(s, sep)) - 1

\* C3: when the remote translator returns every chunk unchanged, the
\* reassembled translation of a text longer than MAX_CHUNK_SIZE keeps every
\* paragraph separator and every sentence terminator of the text.
C3_KeepsSeparators ==
    (pc = "done" /\ IsTranslateCall /\ LongForTranslate /\ NotEnglish
        /\ remote.failAt = 0 /\ remote.mode = "same")
        => /\ SepCount(translated, PARA_SEP) = SepCount(request.text, PARA_SEP)
           /\ SepCount(translated, SENT_SEP) = SepCount(request.text, SENT_SEP)

TranslatedOf(calls, mode) ==
    [i \in 1..Len(calls) |-> GoogleTranslate(calls[i].text, calls[i].target, mode)]

ChunkCalls(text, target_lang) ==
    [i \in 1..Len(TranslateChunks(text)) |->
        TrCall(TranslateChunks(text)[i], target_lang)]

IsPrefix(p, q) == Len(p) <= Len(q) /\ p = SubSeq(q, 1, Len(p))

\* C10 as amended: for a target language other than 'en', the remote calls of
\* a long text are the chunks, once each and in chunk order, up to the first
\* call that raises; when none raises every chunk is called and the result is
\* the per-chunk results joined by '\n\n' in that order; a text of at most
\* MAX_CHUNK_SIZE characters gets exactly one call, on the whole text, whose
\* result is returned.
C10_OneCallPerChunk ==
    (pc = "done" /\ IsTranslateCall /\ NotEnglish) =>
        IF LongForTranslate
        THEN /\ IsPrefix(translator_calls,
                         ChunkCalls(request.text, request.target_language))
             /\ ~tr_raised =>
                  /\ translator_calls =
                         ChunkCalls(request.text, request.target_language)
                  /\ translated =
                         Join(TranslatedOf(translator_calls, remote.mode), PARA_SEP)
        ELSE /\ translator_calls = << TrCall(request.text, request.target_language) >>
             /\ ~tr_raised =>
                  translated = GoogleTranslate(request.text,
                                               request.target_language, remote.mode)

\* C10 witness: a long text translated in at least two chunks, no call raising.
C10_Witness ==
    /\ pc = "done" /\ IsTranslateCall /\ NotEnglish /\ LongForTranslate
    /\ ~tr_raised
    /\ Len(translator_calls) >= 2
    /\ translator_calls[1].text # translator_calls[2].text
    /\ remote.mode = "tag"

\* C10 as stated: also for 'en', a text of at most MAX_CHUNK_SIZE characters
\* gets exactly one remote call (no call raising).
C10_AsStated ==
    (pc = "done" /\ IsTranslateCall /\ ~tr_raised) =>
        /\ (LongForTranslate /\ NotEnglish) =>
              /\ translator_calls =
                     ChunkCalls(request.text, request.target_language)
              /\ translated =
                     Join(TranslatedOf(translator_calls, remote.mode), PARA_SEP)
        /\ ~LongForTranslate =>
              Len(translator_calls) = 1 /\ translator_calls[1].text = request.text

\* C11: translate_text(text, 'en') returns the text unchanged and makes no
\* remote translator call, whether the text is longer than MAX_CHUNK_SIZE or
\* not.
C11_EnglishUntouched ==
    (pc = "done" /\ IsTranslateCall /\ ~NotEnglish) =>
        /\ translated = request.text
        /\ translator_calls = <<>>
        /\ ~tr_raised

\* C11 witness: a text longer than MAX_CHUNK_SIZE, in several paragraphs,
\* returned for 'en'.
C11_Witness ==
    /\ pc = "done" /\ IsTranslateCall /\ ~NotEnglish /\ LongForTranslate
    /\ Len(TranslateChunks(request.text)) >= 2
    /\ translated = request.text

\* C12: every call of text_to_speech that returns a file path returns a path
\* no other call returned, so no audio file written earlier is overwritten.
C12_PathsDistinct ==
    \A i, j \in 1..Len(fs) : i < j => fs[i].path # fs[j].path

\* C15: translate_text and text_to_speech always return to their caller: when
\* a remote call or the export raises, the returned string is
\* 'Translation error: ' or 'TTS error: ' followed by the exception message;
\* a text_to_speech call in which nothing raises returns the path of the MP3
\* it wrote.
C15_ErrorsReturned ==
    (pc = "done") =>
        /\ IsTranslateCall =>
              /\ translated # NONE
              /\ tr_raised => /\ IsPrefix(TRANSLATION_ERROR, translated)
                              /\ translated = TRANSLATION_ERROR \o remote.msg
        /\ IsTtsCall =>
              /\ audio_file # NONE
              /\ tts_raised => /\ IsPrefix(TTS_ERROR, audio_file)
                               /\ SubSeq(audio_file, Len(TTS_ERROR) + 1,
                                         Len(audio_file)) \in ErrMsgs
              /\ ~tts_raised =>
                    /\ audio_file = AudioPath(request.target_language, clock)
                    /\ Len(fs) = 1 /\ fs[1].path = audio_file

\* C15 witness: the gTTS call of the second chunk raises and text_to_speech
\* returns the error string.
C15_Witness ==
    /\ pc = "done" /\ IsTtsCall /\ tts_raised
    /\ Len(gtts_calls) >= 2
    /\ IsPrefix(TTS_ERROR, audio_file)

\* The chunk strings a chunker can make of a group of segments
\* (hablai_core.py 88, 98, 107 and 192, 200).
ChunkForms(group, kind) ==
    IF kind = "tts" THEN { Join(group, SENT_SEP) \o <<DOT>> }
    ELSE { Join(group, <<SP>>), Join(group, PARA_SEP) }

RECURSIVE Packs(_, _, _, _)
\* chunks is segs cut into consecutive non-empty groups, one chunk per group;
\* with limit > 0, each chunk but the last was closed because its length plus
\* 2 plus the length of the next segment exceeds limit.
Packs(segs, chunks, kind, limit) ==
    IF chunks = <<>> THEN segs = <<>>
    ELSE \E k \in 1..Len(segs) :
            /\ Head(chunks) \in ChunkForms(SubSeq(segs, 1, k), kind)
            /\ (limit > 0 /\ k < Len(segs)) =>
                   StrLen(Head(chunks)) + 2 + StrLen(segs[k + 1]) > limit
            /\ Packs(SubSeq(segs, k + 1, Len(segs)), Tail(chunks), kind, limit)

TranslatorChunks == [i \in 1..Len(translator_calls) |-> translator_calls[i].text]
GttsChunks == [i \in 1..Len(gtts_calls) |-> gtts_calls[i].text]

ChunkedTranslation ==
    pc = "done" /\ IsTranslateCall /\ LongForTranslate /\ NotEnglish /\ ~tr_raised
ChunkedSpeech ==
    /\ pc = "done" /\ IsTtsCall /\ pydub /\ StrLen(request.text) > MAX_TTS_SIZE
    /\ Len(gtts_calls) = Len(TtsChunks(request.text))

\* C16: the chunks of translate_text are made of whole segments: a paragraph
\* of at most MAX_CHUNK_SIZE characters lies in one chunk, a (stripped)
\* sentence of a longer paragraph lies in one chunk, so chunks begin and end
\* only where the text has a paragraph separator or, inside a longer
\* paragraph, a sentence separator.
C16_BoundariesOnSeparators ==
    ChunkedTranslation =>
        Packs(TrSegments(request.text), TranslatorChunks, "translate", 0)

\* C16 witness: a text cut both inside a long paragraph and between
\* paragraphs.
C16_Witness ==
    /\ ChunkedTranslation
    /\ Len(translator_calls) >= 2
    /\ Len(Split(request.text, PARA_SEP)) >= 2
    /\ Len(TrSegments(request.text)) > Len(Split(request.text, PARA_SEP))

\* C17: in both chunkers the segments the chunks hold, read chunk by chunk,
\* are the segments of the input in their order, none dropped, duplicated or
\* reordered, and no chunk is empty.
C17_SegmentsKept ==
    /\ ChunkedTranslation =>
          /\ Packs(TrSegments(request.text), TranslatorChunks, "translate", 0)
          /\ \A i \in 1..Len(translator_calls) : translator_calls[i].text # <<>>
    /\ ChunkedSpeech =>
          /\ Packs(TtsSegments(request.text), GttsChunks, "tts", 0)
          /\ \A i \in 1..Len(gtts_calls) : gtts_calls[i].text # <<>>

\* C19: the packing is greedy in both chunkers: for every two consecutive
\* chunks, the length of the earlier chunk plus 2 plus the length of the
\* first segment of the later chunk exceeds the limit.
C19_GreedyPacking ==
    /\ ChunkedTranslation =>
          Packs(TrSegments(request.text), TranslatorChunks, "translate",
                MAX_CHUNK_SIZE)
    /\ ChunkedSpeech =>
          Packs(TtsSegments(request.text), GttsChunks, "tts", MAX_TTS_SIZE)

LongForSpeech == StrLen(request.text) > MAX_TTS_SIZE

SpeechCalls(text, lang) ==
    [i \in 1..Len(TtsChunks(text)) |-> TtsCall(TtsChunks(text)[i], lang)]

Responded == pc = "responded"
Billable == {"/translate", "/tts", "/process-file"}
Protected == Billable \cup {"/auth/me"}

Count(seq, x) == Cardinality({i \in 1..Len(seq) : seq[i] = x})
Has(seq, x) == \E i \in 1..Len(seq) : seq[i] = x

RemoteSteps == {"remote_translate", "gtts"}
HandlerSteps ==
    {"check_and_deduct_credits", "translate_text", "remote_translate",
     "text_to_speech", "gtts", "file_read", "process_file",
     "insert_translations", "insert_localizations", "log_usage",
     "get_user_profile"}

\* C4: when a remote translation call raises, the request answers 500, is
\* logged only as a failure, returns no success response and synthesizes no
\* speech.
C4_TranslationFailureSurfaced ==
    (Responded /\ tr_raised) =>
        /\ response.status = 500
        /\ ~response.success
        /\ gtts_calls = <<>>
        /\ \A i \in 1..Len(usage_logs) : ~usage_logs[i].success

\* C5: when speech synthesis raises, the request answers 500, is logged only
\* as a failure, returns no success response and inserts no localizations
\* record.
C5_SynthesisFailureSurfaced ==
    (Responded /\ tts_raised) =>
        /\ response.status = 500
        /\ ~response.success
        /\ localizations = <<>>
        /\ \A i \in 1..Len(usage_logs) : ~usage_logs[i].success

\* C6: a request to /translate, /tts or /process-file answered with success
\* had exactly one credit deducted, by one check_and_deduct_credits call made
\* before the first remote translation or speech call.
C6_SuccessPaidFirst ==
    (Responded /\ response.success /\ request.endpoint \in Billable) =>
        /\ Count(events, "check_and_deduct_credits") = 1
        /\ has_credits = "True"
        /\ credits[current_user] = ledger0[current_user] - 1
        /\ \A i \in 1..Len(events) :
               events[i] \in RemoteSteps =>
                   \E j \in 1..(i - 1) : events[j] = "check_and_deduct_credits"

\* C6 witness: a /process-file request answered with success after remote
\* translation and speech calls.
C6_Witness ==
    /\ Responded /\ response.success /\ request.endpoint = "/process-file"
    /\ translator_calls # <<>> /\ gtts_calls # <<>>

\* C7: when check_and_deduct_credits answers False the request is answered 402
\* with no remote translation or speech call, no file extraction, no insert
\* into translations or localizations and no usage log entry.
C7_NoCreditsNoWork ==
    (Responded /\ has_credits = "False") =>
        /\ response.status = 402
        /\ translator_calls = <<>>
        /\ gtts_calls = <<>>
        /\ \A i \in 1..Len(events) :
               events[i] \in {"get_user", "profile_lookup",
                              "check_and_deduct_credits"}
        /\ usage_logs = <<>>
        /\ translations = <<>>
        /\ localizations = <<>>

\* C7 witness: a /tts request refused for an empty balance.
C7_Witness ==
    /\ Responded /\ has_credits = "False" /\ request.endpoint = "/tts"
    /\ ledger0["u1"] = 0

\* C8: no handler step runs unless get_current_user verified the token and
\* found the profile; a token that fails verification is answered 401 and a
\* missing profile 404, the ledger unchanged.
C8_AuthGate ==
    /\ (pc = "handler" \/ \E i \in 1..Len(events) : events[i] \in HandlerSteps)
           => current_user \in DOMAIN credits
    /\ (Responded /\ request.endpoint \in Protected
            /\ TokenUser(request.token) = "nobody")
           => response.status = 401 /\ credits = ledger0
    /\ (Responded /\ request.endpoint \in Protected
            /\ Has(events, "profile_lookup")
            /\ TokenUser(request.token) \notin DOMAIN credits)
           => response.status = 404 /\ credits = ledger0

\* C9: the remote translator and gTTS are only called with a target language
\* of TARGET_LANGUAGES; a /process-file request with another target_language
\* is answered 400 by the handler, with no credit deducted and the file unread.
C9_LanguagesChecked ==
    /\ \A i \in 1..Len(translator_calls) :
           translator_calls[i].target \in TARGET_LANGUAGES
    /\ \A i \in 1..Len(gtts_calls) : gtts_calls[i].lang \in TARGET_LANGUAGES
    /\ (request.endpoint = "/process-file"
            /\ request.target_language \notin TARGET_LANGUAGES) =>
           /\ credits = ledger0
           /\ ~Has(events, "check_and_deduct_credits")
           /\ ~Has(events, "file_read")
           /\ (Responded /\ current_user # "nobody") => response.status = 400

\* C9 witness: an authenticated /process-file request for language 'xx',
\* answered 400 although the user has credits.
C9_Witness ==
    /\ Responded /\ request.endpoint = "/process-file"
    /\ request.target_language = "xx"
    /\ current_user = "u1" /\ ledger0["u1"] > 0
    /\ response.status = 400

InTextRange(text) ==
    StrLen(text) >= MIN_TEXT_LENGTH /\ StrLen(text) <= MAX_TEXT_LENGTH

\* C13: the source text an endpoint passes to translate_text has between 1 and
\* 20000 characters; /translate and /tts reject any other text at request
\* validation, before the handler runs, and /process-file answers 400 without
\* translating when the extracted text is empty or longer than
\* MAX_TEXT_LENGTH.
C13_SourceLengthChecked ==
    /\ Has(events, "translate_text") => InTextRange(source_text)
    /\ (request.endpoint \in {"/translate", "/tts"} /\ ~InTextRange(request.text))
           => /\ \A i \in 1..Len(events) : events[i] \notin HandlerSteps
              /\ pc # "handler"
              /\ (Responded /\ current_user # "nobody") => response.status = 422
    /\ (Responded /\ request.endpoint = "/process-file" /\ processed.success
            /\ ~InTextRange(processed.text))
           => response.status = 400 /\ ~Has(events, "translate_text")

\* C13 witness: /process-file answers 400 for a file of 20001 characters whose
\* extraction succeeded.
C13_Witness ==
    /\ Responded /\ request.endpoint = "/process-file"
    /\ processed.success /\ StrLen(processed.text) > MAX_TEXT_LENGTH
    /\ response.status = 400

Extracted == Responded /\ Has(events, "process_file")

\* C14: FileProcessor.process_file always returns a result: success=False with
\* an error message when the extension is not in SUPPORTED_FORMATS, when the
\* content is larger than MAX_FILE_SIZE or when the extractor raises; otherwise
\* success=True with format the lower-cased extension and char_count the
\* length of the returned text.
C14_ExtractionTotal ==
    Extracted =>
        IF \/ Lower(request.file.ext) \notin SUPPORTED_FORMATS
           \/ request.file.size > MAX_FILE_SIZE
           \/ (request.file.corrupt /\ Lower(request.file.ext) # "txt")
        THEN ~processed.success /\ processed.error # <<>>
        ELSE /\ processed.success
             /\ processed.format = Lower(request.file.ext)
             /\ processed.format \in SUPPORTED_FORMATS
             /\ processed.char_count = StrLen(processed.text)
             /\ processed.text = Strip(request.file.content)

\* C14 witness: a file named with an upper-case extension is extracted, its
\* format reported in lower case.
C14_Witness ==
    /\ Extracted /\ request.file.ext = "PDF"
    /\ processed.success /\ processed.format = "pdf"
    /\ processed.char_count > 0

\* C20: when translate_text ran for /translate and no remote translator call
\* raised, the request is answered with success=True and translated_text equal
\* to what translate_text returned; /translate answers 500 only when a remote
\* call raised.
C20_TranslationDelivered ==
    (Responded /\ request.endpoint = "/translate") =>
        /\ (Has(events, "translate_text") /\ ~tr_raised) =>
              /\ response.status = 200
              /\ response.success
              /\ response.translated_text = translated
        /\ response.status = 500 => tr_raised

Deducted == Responded /\ has_credits = "True"

\* C21: every request for which a credit was deducted calls log_usage exactly
\* once before it responds, and the entry written says success=True exactly
\* when the response is a success response; on every path after the
\* deduction.
C21_UsageLoggedOnce ==
    Deducted =>
        /\ Count(events, "log_usage") = 1
        /\ Len(usage_logs) <= 1
        /\ \A i \in 1..Len(usage_logs) : usage_logs[i].success = response.success

\* C22: a request changes the ledger only by its one check_and_deduct_credits
\* call: the balance is one credit lower when the call answered True, also
\* when the request fails afterwards, and is unchanged otherwise.
C22_LedgerOnlyDeducted ==
    /\ Count(events, "check_and_deduct_credits") <= 1
    /\ DOMAIN credits = DOMAIN ledger0
    /\ has_credits # "True" => credits = ledger0
    /\ Deducted =>
          /\ Count(events, "check_and_deduct_credits") = 1
          /\ credits = [ledger0 EXCEPT ![current_user] = @ - 1]

\* C22 witness: /translate answers 500 after the deduction and the credit
\* stays deducted.
C22_Witness ==
    /\ Deducted /\ request.endpoint = "/translate"
    /\ response.status = 500 /\ tr_raised
    /\ credits[current_user] = ledger0[current_user] - 1

====
